---- MODULE Spec2Model ----
(***************************************************************************)
(* The real-time update client (class WebSocketService): one object that   *)
(* owns a browser WebSocket, a reconnect counter, a heartbeat interval and *)
(* a Map from event type to a Set of callbacks.                            *)
(*                                                                         *)
(* Every `new WebSocket(url)` of connect() yields a socket object whose    *)
(* four handlers close over `this`; the object and its handlers live on    *)
(* after this.ws has been overwritten or nulled, so the model keeps every  *)
(* socket ever created (sockets) next to the field this.ws (ws).           *)
(* setTimeout and setInterval callbacks are kept as sets of pending timers *)
(* that the event loop may run in any order.                               *)
(***************************************************************************)
EXTENDS Integers, Sequences, FiniteSets, TLC

VARIABLES
    sockets,            \* every WebSocket created, by creation order
    ws,                 \* this.ws: 0 for null, else an index of sockets
    reconnectAttempts,  \* this.reconnectAttempts
    timeouts,           \* pending setTimeout callbacks armed by handleReconnect
    heartbeatInterval,  \* this.heartbeatInterval: 0 for null, else an interval id
    intervals,          \* ids of the setInterval timers that are still active
    listeners,          \* this.listeners: event type -> ordered set of callbacks
    handles,            \* unsubscribe closures the application holds, counted per
                        \* (eventType, callback): held, and invoked at least once
    connects,           \* history: connect() calls made by the application
    losses,             \* history: close events delivered since the last open event
    step                \* history: the handler that ran last and what it emitted

vars == <<sockets, ws, reconnectAttempts, timeouts, heartbeatInterval,
          intervals, listeners, handles, connects, losses, step>>

(***************************************************************************)
(* Bounds of the model.                                                    *)
(***************************************************************************)
MaxSockets == 6
MaxManualConnects == 2
MaxHandles == 3

(***************************************************************************)
(* Program constants.                                                      *)
(***************************************************************************)
maxReconnectAttempts == 5
reconnectDelay == 1000

CONNECTING == "CONNECTING"
OPEN == "OPEN"
CLOSING == "CLOSING"
CLOSED == "CLOSED"
NotClosed == "-"

Symbols == {"A", "B"}
SymbolLists == {<<"A">>, <<"A", "B">>}
Callbacks == {"cb1", "cb2"}
Absent == "<absent>"

SocketIds == 1..Len(sockets)

EmptyMap == [t \in {} |-> << >>]

(***************************************************************************)
(* JavaScript Set: insertion-ordered, no duplicates.                       *)
(***************************************************************************)
Elems(s) == {s[i] : i \in 1..Len(s)}

\* Faulty variant: an array push, which keeps duplicates.
SetAddKeepingDuplicates(s, x) == Append(s, x)

SetAdd(s, x) == IF x \in Elems(s) THEN s ELSE Append(s, x)

SetDelete(s, x) == SelectSeq(s, LAMBDA y : y # x)

(***************************************************************************)
(* send(message): transmits on this.ws when it is OPEN, else only warns.   *)
(* The value is the sequence of frames put on the wire.                    *)
(***************************************************************************)
\* Faulty variant: a socket that is still CONNECTING passes for open.
IsOpenOrConnecting == ws # 0 /\ sockets[ws].readyState \in {"CONNECTING", "OPEN"}

IsOpen == ws # 0 /\ sockets[ws].readyState = OPEN

\* Faulty variant: no readyState test, only the null test.
SendUnlessNull(message) == IF ws # 0 THEN << [sock |-> ws, msg |-> message] >> ELSE << >>

Send(message) == IF IsOpen THEN << [sock |-> ws, msg |-> message] >> ELSE << >>

Msg(type, channel, symbol) == [type |-> type, channel |-> channel, symbol |-> symbol]

(***************************************************************************)
(* The application calls send(message) itself.  Nothing but the frame put  *)
(* on the wire, if any, is kept of the message.                            *)
(***************************************************************************)
SendMessages == {Msg("subscribe", "stock_updates", "A")}

SendCall(message) ==
    /\ step' = [op |-> "send", message |-> message, sent |-> Send(message)]
    /\ UNCHANGED <<sockets, ws, reconnectAttempts, timeouts, heartbeatInterval,
                   intervals, listeners, handles, connects, losses>>

(***************************************************************************)
(* startHeartbeat / stopHeartbeat.  startHeartbeat overwrites the field    *)
(* without clearing the interval it held.                                  *)
(***************************************************************************)
StopHeartbeatIntervals(ivs, hb) == IF hb # 0 THEN ivs \ {hb} ELSE ivs

(***************************************************************************)
(* handleReconnect: below the ceiling it increments the counter and arms   *)
(* a timer; the timer id is not stored anywhere.                           *)
(***************************************************************************)
\* Faulty variant: the ceiling compared with <= lets a sixth retry through.
BelowCeilingInclusive(attempts) == attempts <= maxReconnectAttempts

BelowCeiling(attempts) == attempts < maxReconnectAttempts

\* Faulty variant: the exponent taken from the incremented counter itself.
DelayFromCounter(attempts) == reconnectDelay * 2^attempts

Delay(attempts) == reconnectDelay * 2^(attempts - 1)

(***************************************************************************)
(* connect(): the body of the Promise executor.  No guard on the current   *)
(* state: a new WebSocket is always created and stored in this.ws.  (The   *)
(* constructor throws only on a malformed url, which is fixed at           *)
(* construction.)  resolve/reject touch no field of the service.           *)
(* connects counts the application's own calls, MaxManualConnects bounds   *)
(* them and MaxSockets bounds the sockets created in all.                  *)
(***************************************************************************)
Busy == ws # 0 /\ sockets[ws].readyState \in {CONNECTING, OPEN}

NewSocket == Len(sockets) + 1

ConnectBody ==
    /\ Len(sockets) < MaxSockets
    /\ sockets' = Append(sockets, [readyState |-> CONNECTING, closedFrom |-> NotClosed])
    /\ ws' = NewSocket

\* Faulty variant: connect() itself resets the attempt counter.
ConnectResettingCounter ==
    /\ connects < MaxManualConnects
    /\ connects' = connects + 1
    /\ ConnectBody
    /\ reconnectAttempts' = 0
    /\ timeouts' = {[t EXCEPT !.atDisconnect = FALSE] : t \in timeouts}
    /\ step' = [op |-> "connect", busy |-> Busy, created |-> NewSocket]
    /\ UNCHANGED <<heartbeatInterval, intervals, listeners, handles, losses>>

Connect ==
    /\ connects < MaxManualConnects
    /\ connects' = connects + 1
    /\ ConnectBody
    /\ timeouts' = {[t EXCEPT !.atDisconnect = FALSE] : t \in timeouts}
    /\ step' = [op |-> "connect", busy |-> Busy, created |-> NewSocket]
    /\ UNCHANGED <<reconnectAttempts, heartbeatInterval, intervals, listeners,
                   handles, losses>>

(***************************************************************************)
(* The timer armed by handleReconnect fires: this.connect().               *)
(***************************************************************************)
\* Faulty variant: the callback runs but does not call connect().
TimeoutFireWithoutConnect(t) ==
    /\ t \in timeouts
    /\ timeouts' = timeouts \ {t}
    /\ step' = [op |-> "timeout", timer |-> t.id, atDisconnect |-> t.atDisconnect,
                created |-> 0]
    /\ UNCHANGED <<sockets, ws, reconnectAttempts, heartbeatInterval, intervals,
                   listeners, handles, connects, losses>>

TimeoutFire(t) ==
    /\ t \in timeouts
    /\ ConnectBody
    /\ timeouts' = timeouts \ {t}
    /\ step' = [op |-> "timeout", timer |-> t.id, atDisconnect |-> t.atDisconnect,
                created |-> NewSocket]
    /\ UNCHANGED <<reconnectAttempts, heartbeatInterval, intervals, listeners,
                   handles, connects, losses>>

(***************************************************************************)
(* disconnect(): close() on the current socket (CONNECTING or OPEN becomes *)
(* CLOSING, the close event follows later), null the field, stop the       *)
(* heartbeat, clear the listener map.  Pending timeouts are left alone.    *)
(* closedFrom remembers, until the close event, the state close() found.   *)
(* atDisconnect marks the timeouts that were pending when disconnect()     *)
(* ran; the next connect() of the application unmarks them.                *)
(***************************************************************************)
Close(sock) ==
    IF sock.readyState \in {CONNECTING, OPEN}
    THEN [readyState |-> CLOSING, closedFrom |-> sock.readyState]
    ELSE sock

Disconnect ==
    /\ sockets' = IF ws # 0 THEN [sockets EXCEPT ![ws] = Close(@)] ELSE sockets
    /\ ws' = 0
    /\ intervals' = StopHeartbeatIntervals(intervals, heartbeatInterval)
    /\ heartbeatInterval' = 0
    /\ listeners' = EmptyMap
    /\ timeouts' = {[t EXCEPT !.atDisconnect = TRUE] : t \in timeouts}
    /\ step' = [op |-> "disconnect"]
    /\ UNCHANGED <<reconnectAttempts, handles, connects, losses>>

(***************************************************************************)
(* ws.onopen of socket s.                                                  *)
(***************************************************************************)
\* Faulty variant: the open handler leaves the attempt counter alone.
OnOpenKeepingCounter(s) ==
    /\ s \in SocketIds
    /\ sockets[s].readyState = CONNECTING
    /\ sockets' = [sockets EXCEPT ![s].readyState = OPEN]
    /\ heartbeatInterval' = s
    /\ intervals' = intervals \cup {s}
    /\ losses' = 0
    /\ step' = [op |-> "onopen", sock |-> s, sent |-> << >>]
    /\ UNCHANGED <<ws, reconnectAttempts, timeouts, listeners, handles, connects>>

OnOpen(s) ==
    /\ s \in SocketIds
    /\ sockets[s].readyState = CONNECTING
    /\ sockets' = [sockets EXCEPT ![s].readyState = OPEN]
    /\ reconnectAttempts' = 0
    /\ heartbeatInterval' = s
    /\ intervals' = intervals \cup {s}
    /\ losses' = 0
    /\ step' = [op |-> "onopen", sock |-> s, sent |-> << >>]
    /\ UNCHANGED <<ws, timeouts, listeners, handles, connects>>

(***************************************************************************)
(* ws.onclose of socket s: the transport delivers exactly one close event  *)
(* per socket, after a failed connect, a lost connection or close().  (The *)
(* error event that may precede it only rejects connect()'s promise.)      *)
(***************************************************************************)
OnClose(s) ==
    /\ s \in SocketIds
    /\ sockets[s].readyState # CLOSED
    /\ sockets' = [sockets EXCEPT ![s] = [readyState |-> CLOSED, closedFrom |-> NotClosed]]
    /\ intervals' = StopHeartbeatIntervals(intervals, heartbeatInterval)
    /\ heartbeatInterval' = 0
    /\ losses' = losses + 1
    /\ IF BelowCeiling(reconnectAttempts)
       THEN /\ reconnectAttempts' = reconnectAttempts + 1
            /\ timeouts' = timeouts \cup
                   {[id |-> s, delay |-> Delay(reconnectAttempts + 1),
                     atDisconnect |-> FALSE]}
            /\ step' = [op |-> "onclose", sock |-> s,
                        closedFrom |-> sockets[s].closedFrom,
                        scheduled |-> Delay(reconnectAttempts + 1)]
       ELSE /\ UNCHANGED <<reconnectAttempts, timeouts>>
            /\ step' = [op |-> "onclose", sock |-> s,
                        closedFrom |-> sockets[s].closedFrom,
                        scheduled |-> 0]
    /\ UNCHANGED <<ws, listeners, handles, connects>>

(***************************************************************************)
(* The setInterval callback of startHeartbeat, for an active interval i.   *)
(***************************************************************************)
HeartbeatTick(i) ==
    /\ i \in intervals
    /\ step' = [op |-> "tick",
                sent |-> IF IsOpen THEN Send(Msg("ping", Absent, Absent)) ELSE << >>]
    /\ UNCHANGED <<sockets, ws, reconnectAttempts, timeouts, heartbeatInterval,
                   intervals, listeners, handles, connects, losses>>

(***************************************************************************)
(* getConnectionStatus() and isConnected(): both read this.ws alone.       *)
(***************************************************************************)
GetConnectionStatus ==
    IF ws = 0
    THEN "closed"
    ELSE CASE sockets[ws].readyState = CONNECTING -> "connecting"
           [] sockets[ws].readyState = OPEN -> "open"
           [] sockets[ws].readyState = CLOSING -> "closing"
           [] sockets[ws].readyState = CLOSED -> "closed"
           [] OTHER -> "closed"

IsConnected == ws # 0 /\ sockets[ws].readyState = OPEN

(***************************************************************************)
(* Event types (keys of this.listeners) built by the subscribe* methods.   *)
(***************************************************************************)
StockEventType(symbol) == "stock_update_" \o symbol

PredictionEventType(symbol) == "prediction_update_" \o symbol

(***************************************************************************)
(* addEventListener(eventType, callback): create the Set on first use, add *)
(* the callback.  The closure it returns looks the Set up again when it is *)
(* invoked, deletes the callback and drops the key of an emptied Set.      *)
(***************************************************************************)
MapDelete(ls, eventType) == [t \in DOMAIN ls \ {eventType} |-> ls[t]]

ListenersAdd(ls, eventType, callback) ==
    IF eventType \in DOMAIN ls
    THEN [ls EXCEPT ![eventType] = SetAdd(@, callback)]
    ELSE [t \in DOMAIN ls \cup {eventType} |->
             IF t = eventType THEN SetAdd(<< >>, callback) ELSE ls[t]]

\* Faulty variant: the emptied Set is left under its key.
ListenersRemoveKeepingKey(ls, eventType, callback) ==
    IF eventType \notin DOMAIN ls
    THEN ls
    ELSE [ls EXCEPT ![eventType] = SetDelete(@, callback)]

ListenersRemove(ls, eventType, callback) ==
    IF eventType \notin DOMAIN ls
    THEN ls
    ELSE IF Len(SetDelete(ls[eventType], callback)) = 0
         THEN MapDelete(ls, eventType)
         ELSE [ls EXCEPT ![eventType] = SetDelete(@, callback)]

EventTypes ==
    {"stock_update", "market_status"}
    \cup {StockEventType(symbol) : symbol \in Symbols}
    \cup {PredictionEventType(symbol) : symbol \in Symbols}

NoHandles == [k \in EventTypes \X Callbacks |-> [held |-> 0, invoked |-> 0]]

HandlesHeld ==
    Cardinality({<<k, i>> \in (EventTypes \X Callbacks) \X (1..MaxHandles) :
                    i <= handles[k].held})

AddEventListener(eventType, callback) ==
    /\ listeners' = ListenersAdd(listeners, eventType, callback)
    /\ handles' = [handles EXCEPT ![<<eventType, callback>>].held = @ + 1]

(***************************************************************************)
(* The subscribe* methods: send the control message, then register.        *)
(***************************************************************************)
ListMsg(type, channel, symbols) == [type |-> type, channel |-> channel, symbols |-> symbols]

Subscribed(api, eventType, callback, message) ==
    /\ AddEventListener(eventType, callback)
    /\ step' = [op |-> "subscribe", api |-> api, eventType |-> eventType,
                callback |-> callback, sent |-> Send(message)]
    /\ UNCHANGED <<sockets, ws, reconnectAttempts, timeouts, heartbeatInterval,
                   intervals, connects, losses>>

SubscribeToStock(symbol, callback) ==
    Subscribed("subscribeToStock", StockEventType(symbol), callback,
               Msg("subscribe", "stock_updates", symbol))

SubscribeToPrediction(symbol, callback) ==
    Subscribed("subscribeToPrediction", PredictionEventType(symbol), callback,
               Msg("subscribe", "prediction_updates", symbol))

SubscribeToMarketStatus(callback) ==
    Subscribed("subscribeToMarketStatus", "market_status", callback,
               Msg("subscribe", "market_status", Absent))

SubscribeToAllStocks(callback) ==
    Subscribed("subscribeToAllStocks", "stock_update", callback,
               Msg("subscribe", "all_stocks", Absent))

\* Faulty variant: registration under the event type of the first symbol.
SubscribeToStockListFirstSymbol(symbols, callback) ==
    Subscribed("subscribeToStockList", StockEventType(symbols[1]), callback,
               ListMsg("subscribe", "stock_list", symbols))

SubscribeToStockList(symbols, callback) ==
    Subscribed("subscribeToStockList", "stock_update", callback,
               ListMsg("subscribe", "stock_list", symbols))

(***************************************************************************)
(* The application invokes an unsubscribe closure it holds for (eventType,  *)
(* callback): one it has not invoked before, or (again) one it has.        *)
(***************************************************************************)
InvokeHandle(eventType, callback, again) ==
    /\ handles[<<eventType, callback>>].held > 0
    /\ IF again
       THEN handles[<<eventType, callback>>].invoked > 0 /\ UNCHANGED handles
       ELSE /\ handles[<<eventType, callback>>].invoked < handles[<<eventType, callback>>].held
            /\ handles' = [handles EXCEPT ![<<eventType, callback>>].invoked = @ + 1]
    /\ listeners' = ListenersRemove(listeners, eventType, callback)
    /\ step' = [op |-> "unsubscribe", eventType |-> eventType, callback |-> callback,
                again |-> again, sent |-> << >>]
    /\ UNCHANGED <<sockets, ws, reconnectAttempts, timeouts, heartbeatInterval,
                   intervals, connects, losses>>

(***************************************************************************)
(* unsubscribeFromStock / unsubscribeFromPrediction /                      *)
(* unsubscribeFromMarketStatus: a send and nothing else.                   *)
(***************************************************************************)
\* Faulty variant: the method also drops the callbacks it was called for.
UnsubscribeFromRemovingListeners(api, message) ==
    /\ step' = [op |-> "unsubscribeFrom", api |-> api, sent |-> Send(message)]
    /\ listeners' =
           IF message.channel = "stock_updates"
           THEN MapDelete(listeners, StockEventType(message.symbol))
           ELSE IF message.channel = "prediction_updates"
           THEN MapDelete(listeners, PredictionEventType(message.symbol))
           ELSE MapDelete(listeners, "market_status")
    /\ UNCHANGED <<sockets, ws, reconnectAttempts, timeouts, heartbeatInterval,
                   intervals, handles, connects, losses>>

UnsubscribeFrom(api, message) ==
    /\ step' = [op |-> "unsubscribeFrom", api |-> api, sent |-> Send(message)]
    /\ UNCHANGED <<sockets, ws, reconnectAttempts, timeouts, heartbeatInterval,
                   intervals, listeners, handles, connects, losses>>

UnsubscribeFromStock(symbol) ==
    UnsubscribeFrom("unsubscribeFromStock", Msg("unsubscribe", "stock_updates", symbol))

UnsubscribeFromPrediction(symbol) ==
    UnsubscribeFrom("unsubscribeFromPrediction",
                    Msg("unsubscribe", "prediction_updates", symbol))

UnsubscribeFromMarketStatus ==
    UnsubscribeFrom("unsubscribeFromMarketStatus",
                    Msg("unsubscribe", "market_status", Absent))

(***************************************************************************)
(* Inbound frames.  A frame either fails JSON.parse or parses to a message *)
(* with a type and, possibly, a data payload carrying a symbol.            *)
(***************************************************************************)
MessageTypes == {"stock_update", "prediction_update", "market_status", "error", "other"}

NoSymbol == "undefined"

Frames ==
    {[parses |-> FALSE, type |-> "other", hasData |-> FALSE, symbol |-> NoSymbol]}
    \cup [parses : {TRUE}, type : {"stock_update", "prediction_update"},
          hasData : {TRUE}, symbol : Symbols]
    \cup [parses : {TRUE}, type : MessageTypes, hasData : {FALSE}, symbol : {NoSymbol}]
    \cup [parses : {TRUE}, type : {"market_status"}, hasData : {TRUE}, symbol : {NoSymbol}]

(***************************************************************************)
(* notifyListeners(eventType, data): forEach over the Set, each callback   *)
(* in its own try/catch.  throwing is the set of callbacks that throw on   *)
(* this payload.  The value is the sequence of invocations made.           *)
(***************************************************************************)
\* Faulty variant: one try/catch around the whole forEach, so that the
\* first callback that throws ends the loop.
NotifyListenersUntilThrow(ls, eventType, throwing) ==
    IF eventType \in DOMAIN ls
    THEN LET throwers == {i \in 1..Len(ls[eventType]) : ls[eventType][i] \in throwing}
             last == IF throwers = {}
                     THEN Len(ls[eventType])
                     ELSE CHOOSE i \in throwers : \A j \in throwers : i <= j
         IN  [i \in 1..last |->
                 [eventType |-> eventType, callback |-> ls[eventType][i],
                  threw |-> ls[eventType][i] \in throwing]]
    ELSE << >>

NotifyListeners(ls, eventType, throwing) ==
    IF eventType \in DOMAIN ls
    THEN [i \in 1..Len(ls[eventType]) |->
             [eventType |-> eventType, callback |-> ls[eventType][i],
              threw |-> ls[eventType][i] \in throwing]]
    ELSE << >>

(***************************************************************************)
(* handleMessage(message): the switch on message.type.  Reading            *)
(* message.data.symbol of a message without data throws a TypeError, after *)
(* the category-wide listeners have been notified.                         *)
(***************************************************************************)
\* Faulty variant: a separator other than the one subscribeToStock uses.
SymbolEventTypeWithColon(message) == message.type \o ":" \o message.symbol

SymbolEventType(message) == message.type \o "_" \o message.symbol

HandleMessage(ls, message, throwing) ==
    IF message.type \in {"stock_update", "prediction_update"}
    THEN IF message.hasData
         THEN [calls |-> NotifyListeners(ls, message.type, throwing)
                         \o NotifyListeners(ls, SymbolEventType(message), throwing),
               threw |-> FALSE]
         ELSE [calls |-> NotifyListeners(ls, message.type, throwing), threw |-> TRUE]
    ELSE IF message.type = "market_status"
         THEN [calls |-> NotifyListeners(ls, "market_status", throwing), threw |-> FALSE]
         ELSE [calls |-> << >>, threw |-> FALSE]

(***************************************************************************)
(* ws.onmessage of an OPEN socket s: JSON.parse, then handleMessage, both  *)
(* inside one try/catch that logs.  Thrown is what the try block throws    *)
(* (a throwing callback never gets that far, notifyListeners catches it);  *)
(* Catches is what the catch clause stops.                                 *)
(***************************************************************************)
Notified(frame) ==
    IF frame.parses
    THEN {c.callback : c \in Elems(HandleMessage(listeners, frame, {}).calls)}
    ELSE {}

OpenSockets == {s \in SocketIds : sockets[s].readyState = OPEN}

NoError == "none"

Thrown(ls, frame) ==
    IF ~frame.parses
    THEN "SyntaxError"
    ELSE IF HandleMessage(ls, frame, {}).threw THEN "TypeError" ELSE NoError

\* Faulty variant: the try/catch placed around JSON.parse alone.
CatchesParseErrorOnly(thrown) == thrown = "SyntaxError"

Catches(thrown) == thrown # NoError

OnMessage(s, frame, throwing) ==
    /\ s \in OpenSockets
    /\ throwing \subseteq Notified(frame)
    /\ step' = [op |-> "onmessage", sock |-> s, frame |-> frame,
                calls |-> IF frame.parses
                          THEN HandleMessage(listeners, frame, throwing).calls
                          ELSE << >>,
                thrown |-> Thrown(listeners, frame),
                escaped |-> Thrown(listeners, frame) # NoError
                            /\ ~Catches(Thrown(listeners, frame))]
    /\ UNCHANGED <<sockets, ws, reconnectAttempts, timeouts, heartbeatInterval,
                   intervals, listeners, handles, connects, losses>>

(***************************************************************************)
(* Callbacks that call back into the service.  effects gives, for each     *)
(* callback, what it does when invoked: nothing, invoke an unsubscribe     *)
(* closure the application holds for a callback of the event type being    *)
(* notified, or subscribe a callback to that event type.                   *)
(*                                                                         *)
(* notifyListeners runs Set.prototype.forEach on the live Set: an entry    *)
(* deleted before it is reached is not visited, an entry added during the  *)
(* loop is visited.  entries is the Set's entry list, a deleted entry      *)
(* staying in place as a tombstone; i is the entry visited last.  When the *)
(* Set becomes empty the closure also deletes the key, and the loop has    *)
(* nothing left to visit.  (The control message a subscribe* call sends    *)
(* from inside a callback is not recorded.)                                *)
(***************************************************************************)
NoEffect == [kind |-> "none", callback |-> Absent]

Effects == {NoEffect} \cup [kind : {"unsubscribe", "subscribe"}, callback : Callbacks]

OneActor(actor, effect) == [c \in Callbacks |-> IF c = actor THEN effect ELSE NoEffect]

Routes(message) ==
    IF message.type \in {"stock_update", "prediction_update"}
    THEN IF message.hasData
         THEN <<message.type, SymbolEventType(message)>>
         ELSE <<message.type>>
    ELSE IF message.type = "market_status" THEN <<"market_status">> ELSE << >>

LiveCallbacks(entries) ==
    LET live == SelectSeq(entries, LAMBDA e : ~e.deleted)
    IN  [n \in 1..Len(live) |-> live[n].callback]

RECURSIVE ForEachLive(_, _, _, _, _, _)
ForEachLive(eventType, entries, i, hs, calls, effects) ==
    LET later == {j \in (i + 1)..Len(entries) : ~entries[j].deleted}
    IN  IF later = {}
        THEN [entries |-> entries, handles |-> hs, calls |-> calls]
        ELSE LET j == CHOOSE n \in later : \A m \in later : n <= m
                 e == effects[entries[j].callback]
                 k == <<eventType, e.callback>>
                 called == Append(calls, [eventType |-> eventType,
                                          callback |-> entries[j].callback,
                                          threw |-> FALSE])
             IN  IF e.kind = "subscribe"
                 THEN ForEachLive(eventType,
                          IF e.callback \in Elems(LiveCallbacks(entries))
                          THEN entries
                          ELSE Append(entries, [callback |-> e.callback, deleted |-> FALSE]),
                          j, [hs EXCEPT ![k].held = @ + 1], called, effects)
                 ELSE IF e.kind = "unsubscribe" /\ hs[k].held > 0
                 THEN ForEachLive(eventType,
                          [n \in 1..Len(entries) |->
                              IF entries[n].callback = e.callback
                              THEN [entries[n] EXCEPT !.deleted = TRUE]
                              ELSE entries[n]],
                          j,
                          [hs EXCEPT ![k].invoked = IF @ < hs[k].held THEN @ + 1 ELSE @],
                          called, effects)
                 ELSE ForEachLive(eventType, entries, j, hs, called, effects)

NotifyListenersLive(ls, hs, eventType, effects) ==
    IF eventType \notin DOMAIN ls
    THEN [listeners |-> ls, handles |-> hs, calls |-> << >>]
    ELSE LET r == ForEachLive(eventType,
                      [n \in 1..Len(ls[eventType]) |->
                          [callback |-> ls[eventType][n], deleted |-> FALSE]],
                      0, hs, << >>, effects)
         IN  [listeners |-> IF Len(LiveCallbacks(r.entries)) = 0
                            THEN MapDelete(ls, eventType)
                            ELSE [ls EXCEPT ![eventType] = LiveCallbacks(r.entries)],
              handles |-> r.handles,
              calls |-> r.calls]

RECURSIVE HandleMessageLive(_, _, _, _)
HandleMessageLive(ls, hs, routes, effects) ==
    IF routes = << >>
    THEN [listeners |-> ls, handles |-> hs, calls |-> << >>]
    ELSE LET first == NotifyListenersLive(ls, hs, Head(routes), effects)
             rest == HandleMessageLive(first.listeners, first.handles, Tail(routes), effects)
         IN  [listeners |-> rest.listeners, handles |-> rest.handles,
              calls |-> first.calls \o rest.calls]

HeldIn(hs) ==
    Cardinality({<<k, i>> \in (EventTypes \X Callbacks) \X (1..(MaxHandles + 1)) :
                    i <= hs[k].held})

OnMessageReentrant(s, frame, effects) ==
    /\ s \in OpenSockets
    /\ frame.parses
    /\ \E r \in {HandleMessageLive(listeners, handles, Routes(frame), effects)} :
           /\ HeldIn(r.handles) <= MaxHandles
           /\ listeners' = r.listeners
           /\ handles' = r.handles
           /\ step' = [op |-> "onmessage-reentrant", sock |-> s, frame |-> frame,
                       effects |-> effects, calls |-> r.calls,
                       thrown |-> Thrown(listeners, frame), escaped |-> FALSE]
    /\ UNCHANGED <<sockets, ws, reconnectAttempts, timeouts, heartbeatInterval,
                   intervals, connects, losses>>

Init ==
    /\ sockets = << >>
    /\ ws = 0
    /\ reconnectAttempts = 0
    /\ timeouts = {}
    /\ heartbeatInterval = 0
    /\ intervals = {}
    /\ listeners = EmptyMap
    /\ handles = NoHandles
    /\ connects = 0
    /\ losses = 0
    /\ step = [op |-> "init"]

Next ==
    \/ Connect
    \/ Disconnect
    \/ \E s \in SocketIds : OnOpen(s)
    \/ \E s \in SocketIds : OnClose(s)
    \/ \E t \in timeouts : TimeoutFire(t)
    \/ \E i \in intervals : HeartbeatTick(i)

Spec == Init /\ [][Next]_vars

(***************************************************************************)
(* SpecSend: the connection life cycle of Spec with an application that    *)
(* also calls send(message) at any moment (heartbeat ticks left out).      *)
(***************************************************************************)
NextSend ==
    \/ Connect
    \/ Disconnect
    \/ \E s \in SocketIds : OnOpen(s)
    \/ \E s \in SocketIds : OnClose(s)
    \/ \E t \in timeouts : TimeoutFire(t)
    \/ \E message \in SendMessages : SendCall(message)

SpecSend == Init /\ [][NextSend]_vars

(***************************************************************************)
(* SpecReconnect: the life cycle for an application that connects only     *)
(* when it holds no socket and disconnects only an open connection, with   *)
(* an event loop that runs every timeout callback it has been given: a     *)
(* timer armed by handleReconnect fires once its delay has passed,         *)
(* whatever else happens meanwhile.                                        *)
(***************************************************************************)
NextReconnect ==
    \/ ws = 0 /\ Connect
    \/ IsConnected /\ Disconnect
    \/ \E s \in SocketIds : OnOpen(s)
    \/ \E s \in SocketIds : OnClose(s)
    \/ \E t \in timeouts : TimeoutFire(t)

TimersFire ==
    \A s \in 1..MaxSockets : WF_vars(\E t \in timeouts : t.id = s /\ TimeoutFire(t))

SpecReconnect == Init /\ [][NextReconnect]_vars /\ TimersFire

(***************************************************************************)
(* SpecSubscriptions: the listener registry under subscribe* calls and     *)
(* unsubscribe-closure invocations alone.                                  *)
(* SpecRouter: the registry and the message router, for an application     *)
(* that also sends unsubscribe messages and connects when it holds no      *)
(* socket, while the transport opens the connection and delivers frames.   *)
(***************************************************************************)
NextSubscribe ==
    /\ HandlesHeld < MaxHandles
    /\ \/ \E symbol \in Symbols, callback \in Callbacks : SubscribeToStock(symbol, callback)
       \/ \E symbol \in Symbols, callback \in Callbacks :
              SubscribeToPrediction(symbol, callback)
       \/ \E callback \in Callbacks : SubscribeToMarketStatus(callback)
       \/ \E callback \in Callbacks : SubscribeToAllStocks(callback)
       \/ \E symbols \in SymbolLists, callback \in Callbacks :
              SubscribeToStockList(symbols, callback)

NextSubscriptions ==
    \/ NextSubscribe
    \/ \E eventType \in EventTypes, callback \in Callbacks, again \in BOOLEAN :
           InvokeHandle(eventType, callback, again)

SpecSubscriptions == Init /\ [][NextSubscriptions]_vars

NextRouter ==
    \/ NextSubscriptions
    \/ \E symbol \in Symbols : UnsubscribeFromStock(symbol)
    \/ \E symbol \in Symbols : UnsubscribeFromPrediction(symbol)
    \/ UnsubscribeFromMarketStatus
    \/ ws = 0 /\ Connect
    \/ \E s \in SocketIds : OnOpen(s)
    \/ \E s \in OpenSockets, frame \in Frames :
           \E throwing \in SUBSET Notified(frame) : OnMessage(s, frame, throwing)

SpecRouter == Init /\ [][NextRouter]_vars

(***************************************************************************)
(* SpecSession: an application that subscribes, connects when it holds no  *)
(* socket and disconnects, over a transport that opens the connection and  *)
(* delivers frames (to callbacks that do not throw).                       *)
(***************************************************************************)
NextSession ==
    \/ NextSubscribe
    \/ ws = 0 /\ Connect
    \/ Disconnect
    \/ \E s \in SocketIds : OnOpen(s)
    \/ \E s \in OpenSockets, frame \in Frames : OnMessage(s, frame, {})

SpecSession == Init /\ [][NextSession]_vars

(***************************************************************************)
(* SpecReentrant: stock subscriptions and a connection over which frames   *)
(* arrive for callbacks that subscribe and unsubscribe while they are      *)
(* notified.                                                               *)
(***************************************************************************)
NextReentrant ==
    \/ /\ HandlesHeld < MaxHandles
       /\ \E symbol \in Symbols, callback \in Callbacks : SubscribeToStock(symbol, callback)
    \/ /\ HandlesHeld < MaxHandles
       /\ \E callback \in Callbacks : SubscribeToAllStocks(callback)
    \/ ws = 0 /\ Connect
    \/ \E s \in SocketIds : OnOpen(s)
    \/ \E s \in OpenSockets, frame \in Frames, actor \in Callbacks, effect \in Effects :
           OnMessageReentrant(s, frame, OneActor(actor, effect))

SpecReentrant == Init /\ [][NextReentrant]_vars

(***************************************************************************)
(*                               Claims                                    *)
(***************************************************************************)
Live == {s \in SocketIds : sockets[s].readyState \in {CONNECTING, OPEN}}

Closed == {s \in SocketIds : sockets[s].readyState = CLOSED}

\* C1: a reconnect timer that was pending when disconnect() ran never fires
\* into a connect attempt (a new socket) before the application's next
\* connect().
C1_DisconnectCancelsScheduledReconnect ==
    ~(step.op = "timeout" /\ step.atDisconnect /\ step.created \in SocketIds)

\* C2: the close event of a socket that disconnect() closed while it was
\* OPEN schedules no reconnect.
C2_CloseAfterDisconnectSchedulesNothing ==
    (step.op = "onclose" /\ step.closedFrom = OPEN) => step.scheduled = 0

\* C3: at most one socket created by the client is CONNECTING or OPEN.
C3_AtMostOneLiveSocket == Cardinality(Live) <= 1

\* C4: connect() called while this.ws is CONNECTING or OPEN creates no new
\* socket and leaves this.ws as it was.
C4_ConnectWhileBusyIsNoOp ==
    (step.op = "connect" /\ step.busy) => (step.created \notin SocketIds /\ ws # step.created)

\* C5: the k-th consecutive close event without an open event in between
\* schedules a reconnect after min(1000 * 2^(k-1), 30000) ms for k = 1..5,
\* and schedules nothing for k >= 6.
C5_BackoffDelays ==
    step.op = "onclose" =>
        step.scheduled =
            IF losses <= 5
            THEN (IF 1000 * 2^(losses - 1) < 30000 THEN 1000 * 2^(losses - 1) ELSE 30000)
            ELSE 0

C5_SixthLossSchedulesNothing ==
    /\ step.op = "onclose"
    /\ losses = 6
    /\ step.scheduled = 0
    /\ reconnectAttempts = 5

\* C6: the attempt counter stays within 0..5; a step taken with the counter
\* at 5 arms no reconnect timer; and as long as no open event has followed
\* the first close event, the sockets ever created number at most the
\* application's connect() calls plus 5, with no timer left pending once
\* all of them are closed.
C6_ScheduledIds(ts) == {t.id : t \in ts}

C6_CeilingBoundsRetries ==
    /\ [](reconnectAttempts \in 0..5)
    /\ [](losses = Cardinality(Closed) => Len(sockets) <= connects + 5)
    /\ []((losses = Cardinality(Closed) /\ Len(sockets) = connects + 5
              /\ Closed = SocketIds) => timeouts = {})
    /\ [][reconnectAttempts = 5 =>
              C6_ScheduledIds(timeouts') \subseteq C6_ScheduledIds(timeouts)]_vars

C6_ExhaustedAfterFiveRetries ==
    /\ step.op = "onclose"
    /\ reconnectAttempts = 5
    /\ step.scheduled = 0
    /\ connects = 1
    /\ Len(sockets) = 6
    /\ Closed = SocketIds
    /\ timeouts = {}

\* C7: the open event of a socket sends exactly one subscribe control message
\* per event type registered at that moment, on that socket.
C7_Subscribes(sent, s) ==
    {i \in 1..Len(sent) : sent[i].sock = s /\ sent[i].msg.type = "subscribe"}

C7_OpenResubscribesEveryTopic ==
    step.op = "onopen" =>
        Cardinality(C7_Subscribes(step.sent, step.sock)) = Cardinality(DOMAIN listeners)

\* C8: every key of the listener map holds a non-empty set of callbacks.
C8_NoEmptyListenerSet == \A t \in DOMAIN listeners : Len(listeners[t]) > 0

C8_LastUnsubscribeDropsKey ==
    /\ step.op = "unsubscribe"
    /\ ~step.again
    /\ step.eventType \notin DOMAIN listeners
    /\ DOMAIN listeners # {}

\* C9: a callback is registered under an event type exactly when it has been
\* subscribed there more often than unsubscribed (counting each unsubscribe
\* closure once, however often it was invoked).
C9_Registered(t, c) == t \in DOMAIN listeners /\ c \in Elems(listeners[t])

C9_MultisetOfSubscribesMinusUnsubscribes ==
    \A k \in EventTypes \X Callbacks :
        C9_Registered(k[1], k[2]) <=> handles[k].held > handles[k].invoked

\* C10: a stock_update / prediction_update message for symbol S invokes, once
\* each, the callbacks registered through subscribeToAllStocks /
\* subscribeToStockList (category-wide) or through subscribeToStock(S) /
\* subscribeToPrediction(S), and no callback of any other event type.
C10_Topics(frame) ==
    IF frame.type = "stock_update"
    THEN {"stock_update", StockEventType(frame.symbol)}
    ELSE {"prediction_update", PredictionEventType(frame.symbol)}

C10_Expected(frame) ==
    {<<t, c>> \in (C10_Topics(frame) \cap DOMAIN listeners) \X Callbacks :
        c \in Elems(listeners[t])}

C10_Invoked(calls) == {<<calls[i].eventType, calls[i].callback>> : i \in 1..Len(calls)}

C10_Routed(frame) ==
    frame.parses /\ frame.hasData /\ frame.type \in {"stock_update", "prediction_update"}

C10_RoutesToCategoryAndSymbolOnly ==
    (step.op = "onmessage" /\ C10_Routed(step.frame)) =>
        /\ C10_Invoked(step.calls) = C10_Expected(step.frame)
        /\ Len(step.calls) = Cardinality(C10_Expected(step.frame))

C10_DeliveredToBothTopicsOnly ==
    /\ step.op = "onmessage"
    /\ C10_Routed(step.frame)
    /\ step.frame.type = "stock_update"
    /\ Len(step.calls) = 2
    /\ {step.calls[1].eventType, step.calls[2].eventType} = C10_Topics(step.frame)
    /\ DOMAIN listeners \ C10_Topics(step.frame) # {}

\* C11: a frame that is not JSON, or a stock_update / prediction_update frame
\* without a data payload, throws nothing out of ws.onmessage and leaves the
\* socket OPEN; the handler changes neither the sockets, this.ws, the
\* reconnect counter and timers, the heartbeat nor the listener map; and a
\* frame with data that arrives next is dispatched to every callback
\* registered for it.
C11_Malformed(frame) ==
    \/ ~frame.parses
    \/ frame.type \in {"stock_update", "prediction_update"} /\ ~frame.hasData

C11_MalformedFrameIsDropped ==
    /\ []((step.op = "onmessage" /\ C11_Malformed(step.frame)) =>
              (~step.escaped /\ sockets[step.sock].readyState = OPEN))
    /\ [][(step'.op = "onmessage" /\ C11_Malformed(step'.frame)) =>
              UNCHANGED <<sockets, ws, reconnectAttempts, timeouts,
                          heartbeatInterval, intervals, listeners>>]_vars
    /\ [][(step.op = "onmessage" /\ C11_Malformed(step.frame)
               /\ step'.op = "onmessage" /\ C10_Routed(step'.frame)) =>
              C10_Invoked(step'.calls) = C10_Expected(step'.frame)]_vars

C11_TypeErrorAfterCategoryDispatchIsCaught ==
    /\ step.op = "onmessage"
    /\ step.thrown = "TypeError"
    /\ Len(step.calls) > 0
    /\ ~step.escaped
    /\ sockets[step.sock].readyState = OPEN

\* C12: when a callback throws during the dispatch of a message that carries
\* data (or of a market_status message), every callback registered under the
\* event types the message is routed to is invoked all the same, nothing is
\* thrown out of ws.onmessage and the socket stays OPEN.
C12_Dispatched(frame) ==
    frame.parses /\ (C10_Routed(frame) \/ frame.type = "market_status")

C12_Topics(frame) ==
    IF frame.type = "market_status" THEN {"market_status"} ELSE C10_Topics(frame)

C12_Registered(frame) ==
    {<<t, c>> \in (C12_Topics(frame) \cap DOMAIN listeners) \X Callbacks :
        c \in Elems(listeners[t])}

C12_ThrowingCallbackIsIsolated ==
    (/\ step.op = "onmessage"
     /\ C12_Dispatched(step.frame)
     /\ \E i \in 1..Len(step.calls) : step.calls[i].threw) =>
        /\ C12_Registered(step.frame) \subseteq C10_Invoked(step.calls)
        /\ ~step.escaped
        /\ sockets[step.sock].readyState = OPEN

C12_SecondCallbackAndOtherTopicStillInvoked ==
    /\ step.op = "onmessage"
    /\ C10_Routed(step.frame)
    /\ Len(step.calls) = 3
    /\ step.calls[1].threw
    /\ step.calls[2].threw
    /\ ~step.calls[3].threw
    /\ step.calls[1].eventType # step.calls[2].eventType
    /\ step.calls[2].eventType = step.calls[3].eventType
    /\ sockets[step.sock].readyState = OPEN

\* C13: a heartbeat tick puts a frame on the wire only when this.ws is a
\* socket in state OPEN, and then it is one ping on that socket; a tick that
\* finds this.ws null, CONNECTING, CLOSING or CLOSED sends nothing.
C13_PingOnlyWhileOpen ==
    step.op = "tick" =>
        IF ws # 0 /\ sockets[ws].readyState = OPEN
        THEN step.sent = << [sock |-> ws, msg |-> Msg("ping", Absent, Absent)] >>
        ELSE step.sent = << >>

C13_TickWhileConnectingSendsNothing ==
    /\ step.op = "tick"
    /\ ws # 0
    /\ sockets[ws].readyState = CONNECTING
    /\ step.sent = << >>

\* C14: once a close event has found the counter at the ceiling and no
\* retry is pending any more, getConnectionStatus() / isConnected() report
\* something else than what they report while the client holds no live
\* socket and a retry is pending (C14_ReportWhileRetryPending).
C14_Report == <<GetConnectionStatus, IsConnected>>

C14_RetryPending == timeouts # {} /\ Live = {}

C14_GaveUp ==
    /\ step.op = "onclose"
    /\ step.scheduled = 0
    /\ reconnectAttempts = maxReconnectAttempts
    /\ timeouts = {}
    /\ Live = {}

C14_ReportWhileRetryPending == <<"closed", FALSE>>

C14_GivingUpHasItsOwnStatus ==
    /\ C14_RetryPending => C14_Report = C14_ReportWhileRetryPending
    /\ C14_GaveUp => C14_Report # C14_ReportWhileRetryPending

\* C15: a subscribeToStock / subscribeToPrediction / subscribeToMarketStatus
\* call for an event type that already has a subscriber puts no control
\* message on the wire.  (subscribeToAllStocks and subscribeToStockList share
\* one event type between two channels and are left out.)
C15_SubscribeMessageOnlyForFirstSubscriber ==
    [][(/\ step'.op = "subscribe"
        /\ step'.eventType # "stock_update"
        /\ step'.eventType \in DOMAIN listeners) => step'.sent = << >>]_vars

\* C16: when a subscribe call found the socket not OPEN (it sent nothing)
\* and the open event of the current socket comes next, the open handler
\* sends a subscribe control message on that socket.
C16_QueuedSubscribeIsFlushedOnOpen ==
    [][(/\ step.op = "subscribe"
        /\ step.sent = << >>
        /\ step'.op = "onopen"
        /\ step'.sock = ws') =>
           \E i \in 1..Len(step'.sent) :
               /\ step'.sent[i].sock = step'.sock
               /\ step'.sent[i].msg.type = "subscribe"]_vars

\* C17: an unsubscribe closure that removes the last callback of an event
\* type while the socket is OPEN removes the key and sends an unsubscribe
\* control message.
C17_LastUnsubscribeSendsControlMessage ==
    [][(/\ step'.op = "unsubscribe"
        /\ step'.eventType \in DOMAIN listeners
        /\ IsConnected) =>
           (Len(SetDelete(listeners[step'.eventType], step'.callback)) = 0 =>
               /\ step'.eventType \notin DOMAIN listeners'
               /\ \E i \in 1..Len(step'.sent) :
                      step'.sent[i].msg.type = "unsubscribe")]_vars

\* C18: a callback that was subscribed twice or more under an event type,
\* with none of its unsubscribe closures invoked, is invoked exactly once
\* for that event type by each message routed there.
C18_Invocations(calls, t, c) ==
    {i \in 1..Len(calls) : calls[i].eventType = t /\ calls[i].callback = c}

C18_SubscribedTwice(t, c) ==
    handles[<<t, c>>].held >= 2 /\ handles[<<t, c>>].invoked = 0

C18_DoubleRegistrationDeliversOnce ==
    (step.op = "onmessage" /\ C12_Dispatched(step.frame)) =>
        \A t \in C12_Topics(step.frame) \cap EventTypes, c \in Callbacks :
            C18_SubscribedTwice(t, c) =>
                Cardinality(C18_Invocations(step.calls, t, c)) = 1

C18_TwiceSubscribedCallbackInvokedOnce ==
    /\ step.op = "onmessage"
    /\ C10_Routed(step.frame)
    /\ C18_SubscribedTwice(StockEventType(step.frame.symbol), "cb1")
    /\ Len(step.calls) = 1
    /\ step.calls[1].callback = "cb1"

\* C20: send(message) puts the message on the wire, once, when this.ws is
\* OPEN and nothing otherwise; it assigns no field of the service; and the
\* open event of a socket transmits nothing, so a message that send()
\* dropped is not sent once the connection opens.
C20_SendIsDroppedUnlessOpen ==
    /\ [](step.op = "send" =>
              step.sent = IF ws # 0 /\ sockets[ws].readyState = OPEN
                          THEN << [sock |-> ws, msg |-> step.message] >>
                          ELSE << >>)
    /\ [][step'.op = "send" =>
              UNCHANGED <<sockets, ws, reconnectAttempts, timeouts,
                          heartbeatInterval, intervals, listeners>>]_vars
    /\ [](step.op = "onopen" => step.sent = << >>)

C20_SendWhileConnectingSendsNothing ==
    /\ step.op = "send"
    /\ ws # 0
    /\ sockets[ws].readyState = CONNECTING
    /\ step.sent = << >>
    /\ \E s \in SocketIds : sockets[s].readyState = CLOSING

\* C19: disconnect() leaves the listener map as it was; and whenever a
\* message is dispatched, every callback subscribed (and not unsubscribed)
\* under an event type the message is routed to is invoked, also on a
\* socket opened by a connect() that followed a disconnect().
C19_Subscribed(t, c) == handles[<<t, c>>].held > handles[<<t, c>>].invoked

C19_DisconnectKeepsRegistry ==
    /\ [][step'.op = "disconnect" => listeners' = listeners]_vars
    /\ []((step.op = "onmessage" /\ C12_Dispatched(step.frame)) =>
              \A t \in C12_Topics(step.frame) \cap EventTypes, c \in Callbacks :
                  C19_Subscribed(t, c) => <<t, c>> \in C10_Invoked(step.calls))

\* C21: the callbacks a message invokes for an event type are exactly those
\* registered under it when the dispatch starts, once each: one that another
\* callback unsubscribes during the dispatch is still invoked, one that a
\* callback subscribes during the dispatch is not.
C21_InvokedFor(calls, t) == SelectSeq(calls, LAMBDA call : call.eventType = t)

C21_Snapshot(t) == IF t \in DOMAIN listeners THEN listeners[t] ELSE << >>

C21_DispatchIteratesOverSnapshot ==
    [][step'.op = "onmessage-reentrant" =>
          \A n \in 1..Len(Routes(step'.frame)) :
              LET t == Routes(step'.frame)[n]
                  invoked == C21_InvokedFor(step'.calls, t)
              IN  /\ {invoked[m].callback : m \in 1..Len(invoked)} = Elems(C21_Snapshot(t))
                  /\ Len(invoked) = Len(C21_Snapshot(t))]_vars

\* C22: while this.ws is OPEN the interval held in this.heartbeatInterval is
\* active, and the close event of a socket other than this.ws leaves the
\* heartbeat alone.
C22_HeartbeatActive == heartbeatInterval # 0 /\ heartbeatInterval \in intervals

C22_OpenConnectionKeepsHeartbeat ==
    /\ [](IsConnected => C22_HeartbeatActive)
    /\ [][(step'.op = "onclose" /\ step'.sock # ws) =>
              (heartbeatInterval' = heartbeatInterval /\ intervals' = intervals)]_vars

\* C23: at most one heartbeat interval is active, and none while
\* getConnectionStatus() is 'closed'.
C23_NoHeartbeatLeak ==
    /\ Cardinality(intervals) <= 1
    /\ GetConnectionStatus = "closed" => intervals = {}

\* C24: a close event that disconnect() did not cause clears the interval
\* held in this.heartbeatInterval and nulls the field; and when it found the
\* counter below the ceiling, the timer it armed eventually fires and
\* connect() creates a new socket (as long as the model's bound on sockets
\* leaves room for one).
C24_Lost(s) ==
    /\ step.op = "onclose"
    /\ step.sock = s
    /\ step.closedFrom = NotClosed
    /\ step.scheduled > 0

C24_Reconnected(s) ==
    /\ step.op = "timeout"
    /\ step.timer = s
    /\ step.created \in SocketIds
    /\ sockets[step.created].readyState = CONNECTING

C25_OpenResetsBackoff ==
    /\ step.op = "onopen" => reconnectAttempts = 0
    /\ (step.op = "onclose" /\ losses = 1) =>
           (step.scheduled = 1000 /\ reconnectAttempts = 1)

C25_BaseDelayAfterOpenThatFollowedFailures ==
    /\ step.op = "onclose"
    /\ losses = 1
    /\ step.scheduled = 1000
    /\ Cardinality(Closed) >= 4
    /\ connects = 1

\* C26: a frame that is not JSON, or a stock_update / prediction_update
\* frame without a data payload, invokes no callback.
C26_MalformedFrameInvokesNothing ==
    (step.op = "onmessage" /\ C11_Malformed(step.frame)) => step.calls = << >>

\* C27: invoking an unsubscribe closure that has been invoked before leaves
\* the listener map as it is.
C27_SecondInvocationChangesNothing ==
    [][(step'.op = "unsubscribe" /\ step'.again) => listeners' = listeners]_vars

\* C28: unsubscribeFromStock / unsubscribeFromPrediction /
\* unsubscribeFromMarketStatus put one unsubscribe control message on the
\* wire when this.ws is OPEN and nothing otherwise, leave the listener map
\* as it is, and a message dispatched next still invokes every callback
\* that was registered for it before the call.
C28_UnsubscribeFromOnlySends ==
    /\ [](step.op = "unsubscribeFrom" =>
              /\ Len(step.sent) = (IF IsConnected THEN 1 ELSE 0)
              /\ \A i \in 1..Len(step.sent) :
                     step.sent[i].sock = ws /\ step.sent[i].msg.type = "unsubscribe")
    /\ [][step'.op = "unsubscribeFrom" => listeners' = listeners]_vars
    /\ [][(/\ step.op = "unsubscribeFrom"
            /\ step'.op = "onmessage"
            /\ C12_Dispatched(step'.frame)) =>
              C12_Registered(step'.frame) \subseteq C10_Invoked(step'.calls)]_vars

C28_UnsubscribeSentAndCallbackKept ==
    /\ step.op = "unsubscribeFrom"
    /\ step.api = "unsubscribeFromStock"
    /\ Len(step.sent) = 1
    /\ step.sent[1].msg.symbol = "A"
    /\ C9_Registered(StockEventType("A"), "cb1")

\* C29: connect() leaves the attempt counter as it is; a close event that
\* finds the counter at the ceiling, also the close event of a socket that
\* a manual connect() created, arms no timer and leaves the counter at the
\* ceiling; and an open event leaves the counter at 0, that is with all
\* five attempts to spend.
C29_ManualConnectKeepsCounter ==
    /\ [][step'.op = "connect" => reconnectAttempts' = reconnectAttempts]_vars
    /\ [][(reconnectAttempts = maxReconnectAttempts /\ step'.op = "onclose") =>
              /\ step'.scheduled = 0
              /\ timeouts' = timeouts
              /\ reconnectAttempts' = maxReconnectAttempts]_vars
    /\ [](step.op = "onopen" => maxReconnectAttempts - reconnectAttempts = 5)

C29_ManualConnectAtCeiling ==
    /\ step.op = "connect"
    /\ reconnectAttempts = maxReconnectAttempts
    /\ connects = 2
    /\ Cardinality(Closed) = 5
    /\ sockets[ws].readyState = CONNECTING

\* C30: subscribeToStockList(symbols, cb) registers cb under the event type
\* stock_update, the one subscribeToAllStocks uses, and with the listener
\* map it leaves, a stock_update message for any symbol, in the list or
\* not, invokes cb under that event type exactly once.
C30_StockUpdate(symbol) ==
    [parses |-> TRUE, type |-> "stock_update", hasData |-> TRUE, symbol |-> symbol]

C30_StockListIsCategoryWide ==
    (step.op = "subscribe" /\ step.api = "subscribeToStockList") =>
        /\ step.eventType = "stock_update"
        /\ \A symbol \in Symbols :
               Cardinality(C18_Invocations(
                   HandleMessage(listeners, C30_StockUpdate(symbol), {}).calls,
                   "stock_update", step.callback)) = 1

C30_ListOfAInvokedForB ==
    /\ step.op = "subscribe"
    /\ step.api = "subscribeToStockList"
    /\ Len(step.sent) = 1
    /\ step.sent[1].msg.symbols = <<"A">>
    /\ DOMAIN listeners = {"stock_update"}
    /\ <<"stock_update", step.callback>>
           \in C10_Invoked(HandleMessage(listeners, C30_StockUpdate("B"), {}).calls)

====
